---- MODULE Spec2Model ----
(***************************************************************************)
(* Model of the sequencer of src/main.rs: n_sides feed threads push blocks *)
(* of a single sequence space through a critical section that keeps the    *)
(* next expected sequence number (cur_block), buffers blocks received      *)
(* ahead of it (new_blocks), flushes the buffer by contiguity and by       *)
(* timeout, and sends the blocks it releases into an unbounded channel     *)
(* drained by one consumer thread.                                         *)
(***************************************************************************)
EXTENDS Integers, Sequences, FiniteSets, TLC

\* ------------------------------------------------------------------ bounds
\* Number of blocks generate_blocks makes (let n_blocks = 10_000 in the program).
NBlocks == 5
\* Highest n_messages generate_blocks gives its blocks (the program fixes 1).
MaxCount == 2
\* Last reading of the monotonic clock, in units of the timeout.
MaxTime == 3
\* Length of each feed thread's vector when the feed threads run alone (FeedSpec).
MaxBlocks == 3
\* Length of each feed thread's vector in a whole session (Spec).
SessionBlocks == 2

\* ------------------------------------------------------- program constants
\* let n_sides = 2;
n_sides == 2
\* let timeout = Duration::from_millis(10); one clock unit is 10 ms.
timeout == 1

Sides == 0 .. (n_sides - 1)
Instants == 0 .. MaxTime

\* struct BlockHeader { seqnum: u64, n_messages: u16 }
BlockHeader(seqnum, n_messages) == [seqnum |-> seqnum, n_messages |-> n_messages]
\* struct BlockMeta { seqnum: u64, ts: Instant }
BlockMeta(seqnum, ts) == [seqnum |-> seqnum, ts |-> ts]

VARIABLES
    blocks,         \* the vector generate_blocks returned, shared by the feed threads
    cur_block,      \* Mutex<BlockMeta>: next expected seqnum, last clock reading
    new_blocks,     \* Mutex<HashMap<BlockMeta, BlockHeader>>, keyed by seqnum
    chan,           \* the unbounded channel's queue of BlockHeader
    sent,           \* every BlockHeader ever sent, in send order (history)
    sink,           \* the seqnums the consumer wrote to messages.txt
    n_consumed,     \* the consumer's counter
    remaining,      \* per feed thread: blocks of its vector not yet processed
    feed_pc,        \* per feed thread: position in the thread body
    call,           \* per feed thread: the block in hand and what its pass did
    cur_lock,       \* owner of the cur_block mutex, or NoOwner
    new_lock,       \* owner of the new_blocks mutex, or NoOwner
    senders,        \* live clones of message_sender
    main_pc,        \* the main thread's position after spawning
    consumer_pc,    \* the consumer thread's position
    window,         \* history: the blocks admitted since the buffer was last empty
    in_order        \* history: whether the input so far is one line's in-order run

vars == << blocks, cur_block, new_blocks, chan, sent, sink, n_consumed, remaining,
           feed_pc, call, cur_lock, new_lock, senders, main_pc, consumer_pc,
           window, in_order >>

NoOwner == -1
MainThread == n_sides

\* ------------------------------------------------------------ HashMap
\* The map is a function from the seqnum a key hashes and compares by to
\* the stored key's ts and the stored value.
EmptyMap == << >>

ContainsKey(m, seqnum) == seqnum \in DOMAIN m

\* Faulty variant of MapInsert: the stored key is replaced along with the value.
MapInsertReplacesKey(m, meta, b) ==
    [k \in DOMAIN m \cup {meta.seqnum} |->
        IF k = meta.seqnum THEN [ts |-> meta.ts, b |-> b] ELSE m[k]]

\* HashMap::insert: a key that compares equal to a stored key keeps the
\* stored key (and so its ts) and replaces only the value.
MapInsert(m, meta, b) ==
    IF ContainsKey(m, meta.seqnum)
    THEN [m EXCEPT ![meta.seqnum].b = b]
    ELSE [k \in DOMAIN m \cup {meta.seqnum} |->
            IF k = meta.seqnum THEN [ts |-> meta.ts, b |-> b] ELSE m[k]]

\* HashMap::remove: the map without the key.
MapRemove(m, seqnum) == [k \in DOMAIN m \ {seqnum} |-> m[k]]

\* HashMap::keys, as a Vec in ascending seqnum (the code sorts what it collects).
RECURSIVE KeysFrom(_, _)
KeysFrom(m, lo) ==
    IF \A k \in DOMAIN m : k < lo
    THEN << >>
    ELSE LET k == CHOOSE x \in DOMAIN m : x >= lo /\ \A y \in DOMAIN m : y >= lo => x <= y
         IN  << BlockMeta(k, m[k].ts) >> \o KeysFrom(m, k + 1)

Keys(m) == KeysFrom(m, 0)

\* ------------------------------------------------ the critical section
\* A pass through the critical section works on st = [cur, new_blocks, out, panicked]:
\* the pointer, the buffer, the blocks sent so far by this pass, and whether an
\* unwrap() failed.

\* Faulty variant of Classify: the second test is dropped, so a block behind the pointer
\* is buffered like one ahead of it.
ClassifyBuffersPast(st, b) ==
    IF b.seqnum = st.cur.seqnum
    THEN [st EXCEPT !.cur.seqnum = @ + b.n_messages, !.out = Append(@, b)]
    ELSE [st EXCEPT !.new_blocks = MapInsert(@, BlockMeta(b.seqnum, st.cur.ts), b)]

\* Faulty variant of Classify: an exact match advances the pointer by one, not by the
\* block's n_messages.
ClassifyAdvancesByOne(st, b) ==
    IF b.seqnum = st.cur.seqnum
    THEN [st EXCEPT !.cur.seqnum = @ + 1, !.out = Append(@, b)]
    ELSE IF b.seqnum > st.cur.seqnum
         THEN [st EXCEPT !.new_blocks = MapInsert(@, BlockMeta(b.seqnum, st.cur.ts), b)]
         ELSE st

\* Faulty variant of Classify: the key of a buffered block is stamped with the
\* instant the session began, not with cur_block.ts.
ClassifyStampsStart(st, b) ==
    IF b.seqnum = st.cur.seqnum
    THEN [st EXCEPT !.cur.seqnum = @ + b.n_messages, !.out = Append(@, b)]
    ELSE IF b.seqnum > st.cur.seqnum
         THEN [st EXCEPT !.new_blocks = MapInsert(@, BlockMeta(b.seqnum, 0), b)]
         ELSE st

\* if b.seqnum == cur_block.seqnum {..} else if b.seqnum > cur_block.seqnum {..}
Classify(st, b) ==
    IF b.seqnum = st.cur.seqnum
    THEN [st EXCEPT !.cur.seqnum = @ + b.n_messages, !.out = Append(@, b)]
    ELSE IF b.seqnum > st.cur.seqnum
         THEN [st EXCEPT !.new_blocks = MapInsert(@, BlockMeta(b.seqnum, st.cur.ts), b)]
         ELSE st

\* Faulty variant of CascadeFlush: "if let" for "while let", one buffered block at most.
CascadeFlushOnce(st, now) ==
    IF ContainsKey(st.new_blocks, st.cur.seqnum)
    THEN LET new_block == st.new_blocks[st.cur.seqnum].b
         IN  [st EXCEPT !.cur = BlockMeta(st.cur.seqnum + new_block.n_messages, now),
                        !.new_blocks = MapRemove(@, st.cur.seqnum),
                        !.out = Append(@, new_block)]
    ELSE st

\* while let Some(new_block) = new_blocks.remove(&cur_block) {..}; now is the
\* clock reading of the last iteration.
RECURSIVE CascadeFlush(_, _)
CascadeFlush(st, now) ==
    IF ContainsKey(st.new_blocks, st.cur.seqnum)
    THEN LET new_block == st.new_blocks[st.cur.seqnum].b
         IN  CascadeFlush(
                [st EXCEPT !.cur = BlockMeta(st.cur.seqnum + new_block.n_messages, now),
                           !.new_blocks = MapRemove(@, st.cur.seqnum),
                           !.out = Append(@, new_block)],
                now)
    ELSE st

\* Faulty variant of Pass1: a key is collected only once it is older than twice the
\* timeout.
Pass1Lenient(map, cur) ==
    SelectSeq(Keys(map), LAMBDA meta : cur.ts - meta.ts > 2 * timeout)

\* Pass 1: the keys whose duration since insertion exceeds the timeout.
Pass1(map, cur) ==
    SelectSeq(Keys(map), LAMBDA meta : cur.ts - meta.ts > timeout)

\* let mut min_seqnum = std::u64::MAX; ... the least seqnum of Pass 1.
MinSeqnum(metas) ==
    CHOOSE s \in {metas[i].seqnum : i \in DOMAIN metas} :
        \A i \in DOMAIN metas : s <= metas[i].seqnum

\* Faulty variant of Pass2: the second pass collects nothing.
Pass2Skipped(map, min_seqnum) == << >>

\* Faulty variant of Pass2: "<=" for "<", so the least timed-out key is collected twice.
Pass2Inclusive(map, min_seqnum) ==
    SelectSeq(Keys(map), LAMBDA meta : meta.seqnum <= min_seqnum)

\* Pass 2: the keys below min_seqnum.
Pass2(map, min_seqnum) ==
    SelectSeq(Keys(map), LAMBDA meta : meta.seqnum < min_seqnum)

\* block_metas.sort_by_key(|b| b.seqnum): a stable insertion sort.
RECURSIVE InsertSorted(_, _)
InsertSorted(sorted, meta) ==
    IF sorted = << >> THEN << meta >>
    ELSE IF sorted[Len(sorted)].seqnum <= meta.seqnum
         THEN Append(sorted, meta)
         ELSE Append(InsertSorted(SubSeq(sorted, 1, Len(sorted) - 1), meta),
                     sorted[Len(sorted)])

RECURSIVE SortBySeqnum(_)
SortBySeqnum(metas) ==
    IF metas = << >> THEN << >>
    ELSE InsertSorted(SortBySeqnum(SubSeq(metas, 1, Len(metas) - 1)), metas[Len(metas)])

\* What the timeout flush collects: Pass 1, then Pass 2, sorted.
BlockMetas(map, cur) ==
    LET timed == Pass1(map, cur)
    IN  IF Len(timed) > 0
        THEN SortBySeqnum(timed \o Pass2(map, MinSeqnum(timed)))
        ELSE << >>

\* Faulty variant of FlushLoop: the pointer is advanced by the block's n_messages, as
\* in the in-order flush, where the loop assigns it.
RECURSIVE FlushLoopAdvances(_, _)
FlushLoopAdvances(st, block_metas) ==
    IF block_metas = << >> THEN st
    ELSE LET m == Head(block_metas)
         IN  IF ~ContainsKey(st.new_blocks, m.seqnum)
             THEN [st EXCEPT !.panicked = TRUE]
             ELSE LET b == st.new_blocks[m.seqnum].b
                  IN  FlushLoopAdvances(
                         [st EXCEPT !.cur.seqnum = @ + b.n_messages,
                                    !.new_blocks = MapRemove(@, m.seqnum),
                                    !.out = Append(@, b)],
                         Tail(block_metas))

\* for m in block_metas { let b = new_blocks.remove(&m).unwrap(); ... }
RECURSIVE FlushLoop(_, _)
FlushLoop(st, block_metas) ==
    IF block_metas = << >> THEN st
    ELSE LET m == Head(block_metas)
         IN  IF ~ContainsKey(st.new_blocks, m.seqnum)
             THEN [st EXCEPT !.panicked = TRUE]
             ELSE LET b == st.new_blocks[m.seqnum].b
                  IN  FlushLoop(
                         [st EXCEPT !.cur.seqnum = b.seqnum + b.n_messages,
                                    !.new_blocks = MapRemove(@, m.seqnum),
                                    !.out = Append(@, b)],
                         Tail(block_metas))

\* Faulty variant of TimeoutFlush: "> 1" for "> 0", a lone buffered block is never
\* looked at.
TimeoutFlushNeedsTwo(st) ==
    IF Cardinality(DOMAIN st.new_blocks) <= 1 THEN st
    ELSE FlushLoop(st, BlockMetas(st.new_blocks, st.cur))

\* if new_blocks.len() > 0 {..}
TimeoutFlush(st) ==
    IF DOMAIN st.new_blocks = {} THEN st
    ELSE FlushLoop(st, BlockMetas(st.new_blocks, st.cur))

\* ------------------------------------------------------------- threads
NoBlock == BlockHeader(-1, 0)
NoPass == [cur |-> BlockMeta(-1, -1), new_blocks |-> EmptyMap, out |-> << >>, panicked |-> FALSE]
NoCall == [b |-> NoBlock, prior_ts |-> -1, pre |-> NoPass, cls |-> NoPass, mid |-> NoPass,
           out |-> << >>]

\* Instant::now(): the clock is monotonic, and every reading is stored in cur_block.ts.
Now == { t \in Instants : t >= cur_block.ts }

\* History of the admissions since the last pass that started on an empty
\* buffer: the pointer p and the number of blocks sent at that start, the clock
\* reading t0 of the first admission, the places in blocks of the blocks admitted,
\* and whether the admissions are still distinct blocks at or after p, all
\* within one timeout of t0.
NewWindow(p, n_sent) == [p |-> p, n_sent |-> n_sent, t0 |-> -1, seen |-> {}, open |-> TRUE]
ClosedWindow == [p |-> -1, n_sent |-> -1, t0 |-> -1, seen |-> {}, open |-> FALSE]

AdmitToWindow(w, k, b, t_first, t_last) ==
    LET t0 == IF w.t0 < 0 THEN t_first ELSE w.t0
    IN  IF w.open /\ k \notin w.seen /\ b.seqnum >= w.p /\ t_last - t0 <= timeout
        THEN [w EXCEPT !.t0 = t0, !.seen = @ \cup {k}]
        ELSE ClosedWindow

\* History of the input as a whole: n is the number of admissions so far if
\* they were blocks[1], blocks[2], ... in that order, all by thread by; n is -1
\* otherwise.
NoRun == [n |-> -1, by |-> -1]

AdmitToRun(r, i, k) ==
    IF r.n >= 0 /\ k = r.n + 1 /\ r.by \in {-1, i}
    THEN [n |-> k, by |-> i]
    ELSE NoRun

\* fn generate_blocks: n_blocks consecutive blocks from seqnum 0, each of
\* n_messages messages.
GenerateBlocks(n_blocks, n_messages) ==
    [k \in 1 .. n_blocks |-> BlockHeader((k - 1) * n_messages, n_messages)]

\* The state main() builds before the threads start, each feed thread with a
\* vector of len blocks.
Start(len) ==
    /\ \E n_messages \in 1 .. MaxCount : blocks = GenerateBlocks(NBlocks, n_messages)
    /\ cur_block = BlockMeta(0, 0)
    /\ new_blocks = EmptyMap
    /\ chan = << >>
    /\ sent = << >>
    /\ sink = << >>
    /\ n_consumed = 0
    /\ remaining = [i \in Sides |-> len]
    /\ feed_pc = [i \in Sides |-> "next"]
    /\ call = [i \in Sides |-> NoCall]
    /\ cur_lock = NoOwner
    /\ new_lock = NoOwner
    /\ senders = Sides \cup {MainThread}
    /\ main_pc = "join_feeds"
    /\ consumer_pc = "iter"
    /\ window = NewWindow(0, 0)
    /\ in_order = [n |-> 0, by |-> -1]

Init == Start(SessionBlocks)

FeedInit == Start(MaxBlocks)

\* Faulty variant of MutexFree: lock() never waits.
MutexNeverWaits(owner) == TRUE

\* Mutex::lock returns once no thread holds the mutex.
MutexFree(owner) == owner = NoOwner

\* let mut cur_block = cur_block.lock().unwrap(); cur_block.ts = Instant::now();
LockCurBlock(i) ==
    /\ feed_pc[i] = "next"
    /\ remaining[i] > 0
    /\ MutexFree(cur_lock)
    /\ \E now \in Now :
         /\ cur_block' = [cur_block EXCEPT !.ts = now]
         /\ call' = [call EXCEPT ![i] = [NoCall EXCEPT !.prior_ts = cur_block.ts]]
    /\ cur_lock' = i
    /\ feed_pc' = [feed_pc EXCEPT ![i] = "cur_locked"]
    /\ UNCHANGED << blocks, new_blocks, chan, sent, sink, n_consumed, remaining, new_lock,
                    senders, main_pc, consumer_pc, window, in_order >>

\* let mut new_blocks = new_blocks.lock().unwrap();
LockNewBlocks(i) ==
    /\ feed_pc[i] = "cur_locked"
    /\ MutexFree(new_lock)
    /\ new_lock' = i
    /\ feed_pc' = [feed_pc EXCEPT ![i] = "both_locked"]
    /\ UNCHANGED << blocks, cur_block, new_blocks, chan, sent, sink, n_consumed, remaining,
                    call, cur_lock, senders, main_pc, consumer_pc, window, in_order >>

\* The body of the block holding both guards, for the block b the loop is at:
\* classification, the in-order flush and the timeout flush, with every send.
\* A thread's vector is a shuffle of blocks; here it may hold any of them at
\* any place, so a line may repeat, reorder or lose blocks.
Admit(i) ==
    /\ feed_pc[i] = "both_locked"
    /\ \E k \in DOMAIN blocks, now \in Now :
         LET b == blocks[k]
             pre == [cur |-> cur_block, new_blocks |-> new_blocks, out |-> << >>,
                     panicked |-> FALSE]
             cls == Classify(pre, b)
             mid == CascadeFlush(cls, now)
             end == TimeoutFlush(mid)
         IN  /\ cur_block' = end.cur
             /\ new_blocks' = end.new_blocks
             /\ chan' = chan \o end.out
             /\ sent' = sent \o end.out
             /\ call' = [call EXCEPT ![i] =
                            [@ EXCEPT !.b = b, !.pre = pre, !.cls = cls, !.mid = mid,
                                      !.out = end.out]]
             /\ window' = AdmitToWindow(
                            IF new_blocks = EmptyMap
                            THEN NewWindow(cur_block.seqnum, Len(sent)) ELSE window,
                            k, b, cur_block.ts, end.cur.ts)
             /\ in_order' = AdmitToRun(in_order, i, k)
             /\ feed_pc' = [feed_pc EXCEPT ![i] = IF end.panicked THEN "panicked" ELSE "unlock"]
    /\ UNCHANGED << blocks, sink, n_consumed, remaining, cur_lock, new_lock, senders,
                    main_pc, consumer_pc >>

\* The guards go out of scope; the loop moves to its next block.
Unlock(i) ==
    /\ feed_pc[i] = "unlock"
    /\ cur_lock' = NoOwner
    /\ new_lock' = NoOwner
    /\ remaining' = [remaining EXCEPT ![i] = @ - 1]
    /\ call' = [call EXCEPT ![i] = NoCall]
    /\ feed_pc' = [feed_pc EXCEPT ![i] = "next"]
    /\ UNCHANGED << blocks, cur_block, new_blocks, chan, sent, sink, n_consumed, senders,
                    main_pc, consumer_pc, window, in_order >>

\* The vector is exhausted: the closure returns and drops its sender s.
FeedExit(i) ==
    /\ feed_pc[i] = "next"
    /\ remaining[i] = 0
    /\ feed_pc' = [feed_pc EXCEPT ![i] = "done"]
    /\ senders' = senders \ {i}
    /\ UNCHANGED << blocks, cur_block, new_blocks, chan, sent, sink, n_consumed, remaining,
                    call, cur_lock, new_lock, main_pc, consumer_pc, window, in_order >>

\* Faulty variant of Recv: the newest block of the queue is received first.
RecvNewest(queue) ==
    [block |-> queue[Len(queue)], rest |-> SubSeq(queue, 1, Len(queue) - 1)]

\* The receiver's iterator yields the oldest block of the queue.
Recv(queue) == [block |-> Head(queue), rest |-> Tail(queue)]

\* fn consume: write!(sink, "{}\n", block.seqnum)
consume(file, block) == Append(file, block.seqnum)

\* for block in r2.iter() { consume(&mut sink, block); *n_consumed1 += 1; }
Consume ==
    /\ consumer_pc = "iter"
    /\ chan # << >>
    /\ sink' = consume(sink, Recv(chan).block)
    /\ n_consumed' = n_consumed + 1
    /\ chan' = Recv(chan).rest
    /\ UNCHANGED << blocks, cur_block, new_blocks, sent, remaining, feed_pc, call, cur_lock,
                    new_lock, senders, main_pc, consumer_pc, window, in_order >>

\* iter() ends once the channel is empty and every sender is dropped.
ConsumerEnd ==
    /\ consumer_pc = "iter"
    /\ chan = << >>
    /\ senders = {}
    /\ consumer_pc' = "done"
    /\ UNCHANGED << blocks, cur_block, new_blocks, chan, sent, sink, n_consumed, remaining,
                    feed_pc, call, cur_lock, new_lock, senders, main_pc, window, in_order >>

\* for t in threads { t.join().unwrap(); } drop(message_sender);
JoinFeeds ==
    /\ main_pc = "join_feeds"
    /\ \A i \in Sides : feed_pc[i] = "done"
    /\ senders' = senders \ {MainThread}
    /\ main_pc' = "join_consumer"
    /\ UNCHANGED << blocks, cur_block, new_blocks, chan, sent, sink, n_consumed, remaining,
                    feed_pc, call, cur_lock, new_lock, consumer_pc, window, in_order >>

\* consumer.join().unwrap(); println!(..)
JoinConsumer ==
    /\ main_pc = "join_consumer"
    /\ consumer_pc = "done"
    /\ main_pc' = "done"
    /\ UNCHANGED << blocks, cur_block, new_blocks, chan, sent, sink, n_consumed, remaining,
                    feed_pc, call, cur_lock, new_lock, senders, consumer_pc, window, in_order >>

Feed(i) == LockCurBlock(i) \/ LockNewBlocks(i) \/ Admit(i) \/ Unlock(i) \/ FeedExit(i)

Next ==
    \/ \E i \in Sides : Feed(i)
    \/ Consume
    \/ ConsumerEnd
    \/ JoinFeeds
    \/ JoinConsumer

Spec == Init /\ [][Next]_vars

\* The feed threads alone, on longer vectors: the runs in which the consumer and
\* the main thread are not scheduled. No feed action reads what those two write.
FeedNext == \E i \in Sides : Feed(i)

FeedSpec == FeedInit /\ [][FeedNext]_vars

\* ---------------------------------------------------------- properties
\* One past the last sequence number a block covers.
EndOf(b) == b.seqnum + b.n_messages

\* Whether sequence number s lies in the range of a block of the sequence bs.
Covered(s, bs) == \E j \in DOMAIN bs : bs[j].seqnum <= s /\ s < EndOf(bs[j])

\* Whether the blocks of bs come in strictly increasing seqnum.
Ascending(bs) == \A j \in 1 .. (Len(bs) - 1) : bs[j].seqnum < bs[j + 1].seqnum

\* Thread i has finished the body of the critical section and not yet released it:
\* call[i] holds the block it admitted, the state before classification (pre), the
\* state after classification (cls), the state after the in-order flush (mid) and
\* the blocks the pass sent (out).
Returning(i) == feed_pc[i] = "unlock"

\* The keys of a buffer whose age at clock reading ts exceeds the timeout.
TimedOut(map, ts) == { k \in DOMAIN map : ts - map[k].ts > timeout }

\* What had been sent before the pass thread i is returning from.
SentBefore(i) == SubSeq(sent, 1, Len(sent) - Len(call[i].out))

\* C1 (as claimed): every two consecutive blocks of the emission stream satisfy
\* b2.seqnum >= b1.seqnum + b1.count.
C1_InOrderEmission ==
    \A j \in 1 .. (Len(sent) - 1) : sent[j + 1].seqnum >= EndOf(sent[j])

\* C2 (as claimed): no sequence number is covered by two emitted blocks.
C2_NoDuplicateEmission ==
    \A j, l \in DOMAIN sent :
        j < l => (EndOf(sent[j]) <= sent[l].seqnum \/ EndOf(sent[l]) <= sent[j].seqnum)

\* C3 (as claimed): a pass whose block has seqnum < pointer sends nothing and
\* leaves the pointer where it was.
C3_PastBlockDropOriginal ==
    \A i \in Sides :
        (Returning(i) /\ call[i].b.seqnum < call[i].pre.cur.seqnum)
        => (call[i].out = << >> /\ cur_block.seqnum = call[i].pre.cur.seqnum)

\* C3 (amended): a pass whose block has seqnum < pointer neither buffers nor sends
\* that block: the buffer gains no key and every block sent was buffered before
\* the pass; and when the buffer held no key at the pointer and no key older than
\* the timeout at the clock reading of the pass, the pass sends nothing and leaves
\* the pointer and the buffer as they were.
C3_PastBlockDrop ==
    \A i \in Sides :
        (Returning(i) /\ call[i].b.seqnum < call[i].pre.cur.seqnum)
        => LET pre == call[i].pre
           IN  /\ DOMAIN new_blocks \subseteq DOMAIN pre.new_blocks
               /\ \A j \in DOMAIN call[i].out :
                    /\ call[i].out[j].seqnum \in DOMAIN pre.new_blocks
                    /\ pre.new_blocks[call[i].out[j].seqnum].b = call[i].out[j]
               /\ (  /\ pre.cur.seqnum \notin DOMAIN pre.new_blocks
                     /\ TimedOut(pre.new_blocks, pre.cur.ts) = {}  )
                  => /\ call[i].out = << >>
                     /\ cur_block.seqnum = pre.cur.seqnum
                     /\ new_blocks = pre.new_blocks

\* A past block met a non-empty buffer with nothing to flush, and was dropped.
C3_Witness ==
    \E i \in Sides :
        /\ Returning(i)
        /\ call[i].b.seqnum < call[i].pre.cur.seqnum
        /\ call[i].pre.new_blocks # EmptyMap
        /\ call[i].out = << >>
        /\ new_blocks = call[i].pre.new_blocks

\* The blocks admitted in window w, and one past the last sequence number they reach.
WindowBlocks(w) == { blocks[k] : k \in w.seen }
WindowEnd(w) == CHOOSE q \in { EndOf(b) : b \in WindowBlocks(w) } :
                    \A b \in WindowBlocks(w) : EndOf(b) <= q

\* The blocks admitted in window w tile [w.p, WindowEnd(w)) without overlap.
Tiles(w) ==
    /\ w.seen # {}
    /\ \A s \in w.p .. (WindowEnd(w) - 1) :
          Cardinality({ b \in WindowBlocks(w) : b.seqnum <= s /\ s < EndOf(b) }) = 1

\* C4: from pointer p and an empty buffer, once distinct blocks that tile [p, q)
\* have been admitted in any order by any threads, all within one timeout and
\* with no other block, each of them has been sent exactly once, in ascending
\* seqnum, the pointer is q and the buffer is empty.
C4_CascadeResolves ==
    (window.open /\ Tiles(window))
    => LET since == SubSeq(sent, window.n_sent + 1, Len(sent))
       IN  /\ Len(since) = Cardinality(window.seen)
           /\ { since[j] : j \in DOMAIN since } = WindowBlocks(window)
           /\ Ascending(since)
           /\ cur_block.seqnum = WindowEnd(window)
           /\ new_blocks = EmptyMap

\* The last block of a tiling admitted in some other order reached the pointer and
\* the pass sent it with two buffered blocks behind it.
C4_Witness ==
    /\ window.open
    /\ Tiles(window)
    /\ \E i \in Sides :
         /\ Returning(i)
         /\ Len(call[i].out) >= 3
         /\ Cardinality(DOMAIN call[i].pre.new_blocks) >= 2

\* C5 (as claimed): when the buffer holds keys older than the timeout and the
\* block admitted is not at the pointer, the pass sends all of those keys' blocks,
\* in ascending seqnum, and leaves the pointer at the end of the highest block
\* the timeout flush sent.
C5_UnresolvedGapSkip ==
    \A i \in Sides :
        LET pre == call[i].pre
            out == call[i].out
            old == TimedOut(pre.new_blocks, pre.cur.ts)
            flushed == SubSeq(out, Len(call[i].mid.out) + 1, Len(out))
        IN  (Returning(i) /\ call[i].b.seqnum # pre.cur.seqnum /\ old # {})
            => /\ \A k \in old : \E j \in DOMAIN out : out[j].seqnum = k
               /\ \A j, l \in DOMAIN out :
                    (j < l /\ out[j].seqnum \in old /\ out[l].seqnum \in old)
                    => out[j].seqnum < out[l].seqnum
               /\ flushed # << >>
                  => \E j \in DOMAIN flushed :
                        /\ \A l \in DOMAIN flushed : flushed[l].seqnum <= flushed[j].seqnum
                        /\ cur_block.seqnum = EndOf(flushed[j])

\* C6 (as claimed): a sequence number the pointer has passed without it being
\* sent is not sent afterwards.
C6_PermanentGap ==
    \A i \in Sides :
        Returning(i)
        => \A s \in 0 .. (call[i].pre.cur.seqnum - 1) :
              ~Covered(s, SentBefore(i)) => ~Covered(s, call[i].out)

\* C7: when the timeout flush fires, every key of the buffer that is timed out or
\* smaller than the smallest timed-out key leaves the buffer and its block is
\* sent by that flush, whatever its age; the flush sends exactly those blocks,
\* in ascending seqnum, and leaves the pointer at the end of the last of them.
C7_StrandingPullsYounger ==
    \A i \in Sides :
        LET mid == call[i].mid
            old == TimedOut(mid.new_blocks, mid.cur.ts)
            flushed == SubSeq(call[i].out, Len(mid.out) + 1, Len(call[i].out))
        IN  (Returning(i) /\ old # {})
            => LET least == CHOOSE k \in old : \A l \in old : k <= l
                   taken == old \cup { k \in DOMAIN mid.new_blocks : k < least }
               IN  /\ \A k \in taken :
                        /\ k \notin DOMAIN new_blocks
                        /\ \E j \in DOMAIN flushed : flushed[j] = mid.new_blocks[k].b
                   /\ Len(flushed) = Cardinality(taken)
                   /\ Ascending(flushed)
                   /\ cur_block.seqnum = EndOf(flushed[Len(flushed)])

\* A flush took a key that was not itself timed out, below the timed-out ones.
C7_Witness ==
    \E i \in Sides :
        LET mid == call[i].mid
            old == TimedOut(mid.new_blocks, mid.cur.ts)
        IN  /\ Returning(i)
            /\ old # {}
            /\ \E k \in DOMAIN mid.new_blocks \ old :
                 /\ \A l \in old : k < l
                 /\ k \notin DOMAIN new_blocks
                 /\ Len(call[i].out) >= 2

\* C8: the critical section is exclusive and its two locks are taken in one
\* order: the holder of new_blocks holds cur_block, each lock is held exactly
\* by the thread that is between taking and releasing it, a thread that holds
\* cur_block never finds new_blocks taken, no two threads are inside at once,
\* and a thread that waits for cur_block waits for a thread that is not waiting.
InCriticalSection(i) == feed_pc[i] \in {"cur_locked", "both_locked", "unlock"}

C8_AtomicAdmit ==
    /\ \A i, j \in Sides : (InCriticalSection(i) /\ InCriticalSection(j)) => i = j
    /\ \A i \in Sides : (cur_lock = i) <=> InCriticalSection(i)
    /\ \A i \in Sides : (new_lock = i) <=> feed_pc[i] \in {"both_locked", "unlock"}
    /\ new_lock # NoOwner => new_lock = cur_lock
    /\ \A i \in Sides : feed_pc[i] = "cur_locked" => new_lock = NoOwner
    /\ \A i \in Sides : ~InCriticalSection(i) => call[i] = NoCall
    /\ \A i \in Sides :
          (feed_pc[i] = "next" /\ remaining[i] > 0 /\ cur_lock # NoOwner)
          => /\ cur_lock \in Sides \ {i}
             /\ feed_pc[cur_lock] \in {"cur_locked", "both_locked", "unlock"}
             /\ feed_pc[cur_lock] = "cur_locked" => new_lock = NoOwner
             /\ feed_pc[cur_lock] \in {"both_locked", "unlock"} => new_lock = cur_lock

\* One thread is about to release the locks while the other waits for cur_block
\* with a block in hand.
C8_Witness ==
    \E i, j \in Sides :
        /\ i # j
        /\ Returning(i)
        /\ call[i].out # << >>
        /\ feed_pc[j] = "next"
        /\ remaining[j] > 0
        /\ remaining[i] < SessionBlocks

\* The seqnums of a sequence of blocks.
SeqnumsOf(bs) == [j \in DOMAIN bs |-> bs[j].seqnum]

\* C9: what the consumer wrote followed by what the channel holds is what was
\* sent, in send order; the consumer counts what it wrote; the channel is closed
\* only when every feed thread has returned; the consumer ends only on a closed,
\* drained channel, having consumed every block sent; the main thread ends after
\* the consumer; and once every feed thread has returned, the main thread is at
\* its join, or the channel is closed and the consumer is draining it or done.
C9_OutputChannel ==
    /\ sink \o SeqnumsOf(chan) = SeqnumsOf(sent)
    /\ chan = SubSeq(sent, n_consumed + 1, Len(sent))
    /\ n_consumed = Len(sink)
    /\ senders = {} => \A i \in Sides : feed_pc[i] = "done"
    /\ consumer_pc = "done" => (senders = {} /\ chan = << >> /\ n_consumed = Len(sent))
    /\ main_pc = "done" => consumer_pc = "done"
    /\ main_pc # "join_feeds" => senders = {}
    /\ (\A i \in Sides : feed_pc[i] = "done")
       => \/ main_pc = "join_feeds"
          \/ consumer_pc = "iter" /\ senders = {}
          \/ consumer_pc = "done"

\* The session ended with several blocks sent, one of them out of a flush.
C9_Witness ==
    /\ main_pc = "done"
    /\ Len(sent) >= 3
    /\ n_consumed = Len(sent)
    /\ new_blocks # EmptyMap

RECURSIVE SumOfCounts(_)
SumOfCounts(n) == IF n = 0 THEN 0 ELSE blocks[n].n_messages + SumOfCounts(n - 1)

\* C10: while the input is one thread admitting blocks[1], blocks[2], ... in that
\* order from pointer 0 and an empty buffer, every pass sends exactly its own
\* block, the buffer stays empty, what was sent is the input in its order and
\* the pointer is the sum of the counts admitted.
C10_InOrderPassThrough ==
    in_order.n >= 0
    => /\ new_blocks = EmptyMap
       /\ sent = [j \in 1 .. in_order.n |-> blocks[j]]
       /\ cur_block.seqnum = SumOfCounts(in_order.n)
       /\ \A i \in Sides :
            Returning(i) => (call[i].out = << call[i].b >> /\ call[i].mid.new_blocks = EmptyMap)

\* One thread has admitted its whole vector in order.
C10_Witness ==
    \E i \in Sides :
        /\ in_order.n = MaxBlocks
        /\ in_order.by = i
        /\ Returning(i)
        /\ remaining[1 - i] = MaxBlocks

\* What the timeout flush of the pass thread i is returning from sent.
Flushed(i) == SubSeq(call[i].out, Len(call[i].mid.out) + 1, Len(call[i].out))

\* C11: no pass fails, and every pass handles its block by the one of the three
\* cases its seqnum falls in: a block at the pointer is sent and moves the
\* pointer by its count, the buffer untouched; a block ahead of the pointer is
\* stored under its seqnum, nothing sent and the pointer untouched; a block
\* behind the pointer changes nothing.
\* The timeout flush removes as many keys as it sends blocks, each block sent
\* being the one a distinct key of the buffer held when the flush began.
C11_TotalClassification ==
    /\ \A i \in Sides : feed_pc[i] # "panicked"
    /\ \A i \in Sides :
          Returning(i)
          => LET b == call[i].b
                 pre == call[i].pre
                 cls == call[i].cls
                 mid == call[i].mid
                 exact == /\ cls.out = << b >>
                          /\ cls.cur = BlockMeta(pre.cur.seqnum + b.n_messages, pre.cur.ts)
                          /\ cls.new_blocks = pre.new_blocks
                 future == /\ cls.out = << >>
                           /\ cls.cur = pre.cur
                           /\ DOMAIN cls.new_blocks = DOMAIN pre.new_blocks \cup {b.seqnum}
                           /\ cls.new_blocks[b.seqnum].b = b
                           /\ \A k \in DOMAIN pre.new_blocks \ {b.seqnum} :
                                 cls.new_blocks[k] = pre.new_blocks[k]
                 past == /\ cls.out = << >>
                         /\ cls.cur = pre.cur
                         /\ cls.new_blocks = pre.new_blocks
             IN  /\ (b.seqnum = pre.cur.seqnum) => exact
                 /\ (b.seqnum > pre.cur.seqnum) => future
                 /\ (b.seqnum < pre.cur.seqnum) => past
                 /\ Len(Flushed(i)) =
                       Cardinality(DOMAIN mid.new_blocks \ DOMAIN new_blocks)
                 /\ DOMAIN new_blocks \subseteq DOMAIN mid.new_blocks
                 /\ \A j \in DOMAIN Flushed(i) :
                       /\ Flushed(i)[j].seqnum \in DOMAIN mid.new_blocks \ DOMAIN new_blocks
                       /\ mid.new_blocks[Flushed(i)[j].seqnum].b = Flushed(i)[j]
                       /\ \A l \in DOMAIN Flushed(i) :
                             l # j => Flushed(i)[l].seqnum # Flushed(i)[j].seqnum

\* A block ahead of the pointer was buffered and the timeout flush of the same
\* pass collected it in its second pass, with a timed-out key, and removed both.
C11_Witness ==
    \E i \in Sides :
        /\ Returning(i)
        /\ call[i].b.seqnum > call[i].pre.cur.seqnum
        /\ call[i].b.seqnum \notin DOMAIN call[i].pre.new_blocks
        /\ Len(Flushed(i)) >= 2
        /\ Flushed(i)[1] = call[i].b
        /\ new_blocks = EmptyMap

\* C12 (as claimed): the ts stored with a block buffered by a pass is the value
\* cur_block.ts held before the pass overwrote it with its clock reading.
C12_PriorActivityStamp ==
    \A i \in Sides :
        (Returning(i) /\ call[i].b.seqnum > call[i].pre.cur.seqnum)
        => call[i].cls.new_blocks[call[i].b.seqnum].ts = call[i].prior_ts

\* C12 (amended): a pass that buffers a block under a seqnum the buffer did not
\* hold stores with it the clock reading the pass itself wrote to cur_block.ts on
\* entry, which is not earlier than the value it overwrote; under a seqnum the
\* buffer already held, the ts stored earlier stays.
C12_AdmissionStamp ==
    \A i \in Sides :
        (Returning(i) /\ call[i].b.seqnum > call[i].pre.cur.seqnum)
        => LET k == call[i].b.seqnum
               pre == call[i].pre
           IN  /\ pre.cur.ts >= call[i].prior_ts
               /\ k \notin DOMAIN pre.new_blocks
                  => call[i].cls.new_blocks[k].ts = pre.cur.ts
               /\ k \in DOMAIN pre.new_blocks
                  => call[i].cls.new_blocks[k].ts = pre.new_blocks[k].ts

\* A pass that began later than the last clock reading buffered a new block, which
\* stays buffered under the reading of the pass.
C12_Witness ==
    \E i \in Sides :
        LET k == call[i].b.seqnum
        IN  /\ Returning(i)
            /\ k > call[i].pre.cur.seqnum
            /\ k \notin DOMAIN call[i].pre.new_blocks
            /\ call[i].pre.cur.ts > call[i].prior_ts
            /\ k \in DOMAIN new_blocks
            /\ new_blocks[k].ts = call[i].pre.cur.ts

\* Thread i is returning from a pass whose block lay ahead of the pointer under
\* a seqnum the buffer already held.
Overwrote(i) ==
    /\ Returning(i)
    /\ call[i].b.seqnum > call[i].pre.cur.seqnum
    /\ call[i].b.seqnum \in DOMAIN call[i].pre.new_blocks

\* C13 (as claimed): after a pass whose block lay ahead of the pointer under a
\* seqnum already buffered, that seqnum holds the block that arrived with a ts
\* this pass took (its clock reading, or the value that reading overwrote), and
\* the pass sent nothing.
C13_LastWriteWins ==
    \A i \in Sides :
        Overwrote(i)
        => LET k == call[i].b.seqnum
           IN  /\ call[i].cls.new_blocks[k].b = call[i].b
               /\ call[i].cls.new_blocks[k].ts \in {call[i].prior_ts, call[i].pre.cur.ts}
               /\ call[i].out = << >>

\* C13 (amended): such a pass leaves the buffer with the same keys, the seqnum
\* holding the block that arrived under the ts stored with the earlier one, every
\* other key as it was; storing it sends nothing and leaves the pointer; and
\* the pass sends nothing at all when no key is at the pointer and none is older
\* than the timeout at the clock reading of the pass.
C13_OverwriteKeepsStamp ==
    \A i \in Sides :
        Overwrote(i)
        => LET k == call[i].b.seqnum
               pre == call[i].pre
               cls == call[i].cls
           IN  /\ DOMAIN cls.new_blocks = DOMAIN pre.new_blocks
               /\ cls.new_blocks[k] = [ts |-> pre.new_blocks[k].ts, b |-> call[i].b]
               /\ \A l \in DOMAIN pre.new_blocks \ {k} : cls.new_blocks[l] = pre.new_blocks[l]
               /\ cls.out = << >>
               /\ cls.cur = pre.cur
               /\ (  /\ pre.cur.seqnum \notin DOMAIN pre.new_blocks
                     /\ TimedOut(pre.new_blocks, pre.cur.ts) = {}  )
                  => /\ call[i].out = << >>
                     /\ new_blocks = cls.new_blocks
                     /\ cur_block = pre.cur

\* A block arrived again, later than its buffered copy, and the seqnum stays
\* buffered under the earlier ts.
C13_Witness ==
    \E i \in Sides :
        LET k == call[i].b.seqnum
        IN  /\ Overwrote(i)
            /\ call[i].pre.new_blocks[k].ts < call[i].pre.cur.ts
            /\ call[i].out = << >>
            /\ k \in DOMAIN new_blocks
            /\ new_blocks[k].ts = call[i].pre.new_blocks[k].ts

\* No thread is between taking cur_block and releasing it.
NoCallInProgress == \A i \in Sides : ~InCriticalSection(i)

\* C14 (as claimed): a pass never leaves the pointer below where it found it.
C14_MonotoneWatermark ==
    \A i \in Sides : Returning(i) => cur_block.seqnum >= call[i].pre.cur.seqnum

\* C15 (as claimed): between passes every key of the buffer is at or ahead of
\* the pointer.
C15_NoStrandedEntries ==
    NoCallInProgress => \A k \in DOMAIN new_blocks : k >= cur_block.seqnum

\* C16 (as claimed): a pass never returns with a key of the buffer at the pointer.
C16_CascadeComplete ==
    \A i \in Sides : Returning(i) => ~ContainsKey(new_blocks, cur_block.seqnum)

\* C17: a pass that begins more than the timeout after the ts stored with a
\* buffered key returns with that key out of the buffer and the block it held
\* among the blocks the pass sent; so a key stays buffered past its timeout only
\* while no pass begins.
C17_BufferedEventuallyEmitted ==
    \A i \in Sides :
        Returning(i)
        => \A k \in TimedOut(call[i].pre.new_blocks, call[i].pre.cur.ts) :
              /\ k \notin DOMAIN new_blocks
              /\ \E j \in DOMAIN call[i].out : call[i].out[j] = call[i].cls.new_blocks[k].b

\* A lone buffered block outlived the timeout, and the next pass, given a block
\* behind the pointer, sent it by its timeout flush.
C17_Witness ==
    \E i \in Sides :
        /\ Returning(i)
        /\ call[i].b.seqnum < call[i].pre.cur.seqnum
        /\ Cardinality(DOMAIN call[i].pre.new_blocks) = 1
        /\ TimedOut(call[i].pre.new_blocks, call[i].pre.cur.ts) = DOMAIN call[i].pre.new_blocks
        /\ Len(Flushed(i)) = 1
        /\ new_blocks = EmptyMap

\* C18: the pointer is the end of the last block sent, and 0 while nothing has
\* been sent; a pass that sends nothing leaves the pointer where it found it,
\* and a pass that sends blocks moves it, block by block, to the end of each:
\* classification and the in-order flush send blocks that begin at the pointer.
C18_PointerTracksEmission ==
    /\ cur_block.seqnum = IF sent = << >> THEN 0 ELSE EndOf(sent[Len(sent)])
    /\ \A i \in Sides :
          Returning(i)
          => LET pre == call[i].pre
                 mid == call[i].mid
             IN  /\ call[i].out = << >> => cur_block.seqnum = pre.cur.seqnum
                 /\ mid.out = << >> => mid.cur.seqnum = pre.cur.seqnum
                 /\ mid.out # << >>
                    => /\ mid.out[1].seqnum = pre.cur.seqnum
                       /\ \A j \in 1 .. (Len(mid.out) - 1) :
                             mid.out[j + 1].seqnum = EndOf(mid.out[j])
                       /\ mid.cur.seqnum = EndOf(mid.out[Len(mid.out)])
                 /\ Flushed(i) = << >> => cur_block.seqnum = mid.cur.seqnum

\* Between passes, the last block sent came out of a timeout flush that skipped
\* sequence numbers, and the pointer is at its end.
C18_Witness ==
    /\ NoCallInProgress
    /\ Len(sent) >= 2
    /\ sent[Len(sent)].seqnum > EndOf(sent[Len(sent) - 1])
    /\ cur_block.seqnum = EndOf(sent[Len(sent)])
    /\ new_blocks # EmptyMap

\* C19: a pass returns with every buffered key no older than the timeout at the
\* last clock reading, and a key that was buffered before the pass and still is
\* has the ts it had, whatever arrived under its seqnum.
C19_BoundedEntryAge ==
    \A i \in Sides :
        Returning(i)
        => /\ \A k \in DOMAIN new_blocks : cur_block.ts - new_blocks[k].ts <= timeout
           /\ \A k \in DOMAIN new_blocks \cap DOMAIN call[i].pre.new_blocks :
                 new_blocks[k].ts = call[i].pre.new_blocks[k].ts

\* A buffered key met a later pass at exactly the timeout and stays buffered,
\* with its first ts, though its block arrived again.
C19_Witness ==
    \E i \in Sides :
        LET k == call[i].b.seqnum
        IN  /\ Overwrote(i)
            /\ k \in DOMAIN new_blocks
            /\ cur_block.ts - new_blocks[k].ts = timeout
            /\ Cardinality(DOMAIN new_blocks) >= 2
====
